---- MODULE Spec2Model ----
(***************************************************************************)
(* py2mql5: a wrapper that gives every MetaTrader 5 terminal install its   *)
(* own copy of the vendor binding package, imports that copy under a       *)
(* generated name and forwards a few calls to it.                          *)
(*                                                                         *)
(* The model covers Client.__init__ (with the private helper that copies   *)
(* and imports the binding), Client.__del__, Client.login,                 *)
(* Client.last_error, Client.account_info and AccountInfo.__init__, over   *)
(* the state they touch: the isolation directories on disk, sys.path,      *)
(* sys.modules, the imported module objects (each with the binding's       *)
(* connection state) and the attributes of every Client object.            *)
(*                                                                         *)
(* Spec     : operations run one after another (single-threaded use).      *)
(* SpecConc : __init__ is split at the point between the directory scan    *)
(*            and the copy, so that two constructions may interleave.      *)
(***************************************************************************)
EXTENDS Integers, Sequences, FiniteSets, TLC

VARIABLES
    baseDirs,    \* installs whose <terminal_parent>/py2mql5 directory exists
    copies,      \* install -> set of package directories inside that directory
    sysPath,     \* sys.path: the sequence of isolation directories appended
    sysModules,  \* sys.modules: module name -> module object
    binding,     \* module object -> state of the vendor binding it holds
    sess,        \* Client object -> its attributes and lifecycle position
    lastResult   \* what the last operation was given, did and returned/raised

vars == <<baseDirs, copies, sysPath, sysModules, binding, sess, lastResult>>

-----------------------------------------------------------------------------
(* Bounds *)

NumSessions == 2
MaxRawCode == 3

Sessions == 1 .. NumSessions
\* Terminal installs: no run uses more of them than it creates Client objects.
Installs == 1 .. NumSessions

-----------------------------------------------------------------------------
(* Program constants and value objects *)

OFFICIAL_MODULE_NAME == "MetaTrader5"

TIMEOUT_DEFAULT == 60000

TradeMode_swapped == [DEMO |-> 0, CONTEST |-> 2, REAL |-> 1]

TradeMode == [DEMO |-> 0, CONTEST |-> 1, REAL |-> 2]

MarginSoMode == [STOPOUT_MODE_PERCENT |-> 0, STOPOUT_MODE_MONEY |-> 1]

MarginMode == [RETAIL_NETTING |-> 0, EXCHANGE |-> 1, RETAIL_HEDGING |-> 2]

\* Enum(value): the member whose value it is, or a ValueError.
EnumOf(enum, v) ==
    IF \E n \in DOMAIN enum : enum[n] = v
    THEN CHOOSE n \in DOMAIN enum : enum[n] = v
    ELSE "ValueError"

MT5LastError(t) == [error_code |-> t[1], error_description |-> t[2]]

NoError == [error_code |-> 0, error_description |-> ""]

-----------------------------------------------------------------------------
(* The environment: call arguments and what the vendor binding may answer *)

Credentials ==
    { [account_number |-> 1, server |-> "srvA"],
      [account_number |-> 2, server |-> "srvB"] }

SuccessTuple == <<1, "Success">>

FailTuples == { <<-6, "Authorization failed">> }

OfficialInitPy == <<"from ._core import *">>

RawCodes == -1 .. MaxRawCode

NoRaw == [login |-> 0, trade_mode |-> 0, margin_so_mode |-> 0, margin_mode |-> 0]

\* A freshly imported copy of the binding: not connected, no error yet.
FreshBinding == [connected |-> FALSE, account |-> 0, last_error |-> SuccessTuple]

\* official.initialize(path, login=..., ...) -> bool
official_initialize(b, cred, ok, err) ==
    IF ok
    THEN [connected |-> TRUE, account |-> cred.account_number, last_error |-> SuccessTuple]
    ELSE [connected |-> FALSE, account |-> 0, last_error |-> err]

\* official.login(account, password=..., ...) -> bool
official_login(b, cred, ok, err) ==
    IF ok
    THEN [connected |-> TRUE, account |-> cred.account_number, last_error |-> SuccessTuple]
    ELSE [b EXCEPT !.last_error = err]

\* official.shutdown(); when it raises nothing is known to have changed
official_shutdown(b, raises) ==
    IF raises THEN b ELSE [b EXCEPT !.connected = FALSE, !.account = 0]

\* official.last_error() -> (code, description)
official_last_error(b) == b.last_error

\* official.account_info(): None without a connection, else an object whose
\* integer-coded fields are whatever the terminal reports
OfficialAccountInfos(b) ==
    IF ~ b.connected
    THEN { [none |-> TRUE, obj |-> NoRaw] }
    ELSE { [none |-> FALSE,
            obj |-> [login |-> b.account, trade_mode |-> tm,
                     margin_so_mode |-> so, margin_mode |-> mm]] :
           tm \in RawCodes, so \in 0 .. MaxRawCode - 1, mm \in 0 .. MaxRawCode }

-----------------------------------------------------------------------------
(* Helpers *)

Range(f) == { f[i] : i \in DOMAIN f }

Count(seq, x) == Cardinality({ i \in DOMAIN seq : seq[i] = x })

\* list.remove(x): drops the first occurrence (the caller checks membership)
ListRemove(seq, x) ==
    LET i == CHOOSE k \in DOMAIN seq : seq[k] = x /\ \A j \in 1 .. k - 1 : seq[j] # x
    IN  SubSeq(seq, 1, i - 1) \o SubSeq(seq, i + 1, Len(seq))

\* dict.pop(key, None)
DictPop(d, k) == [n \in DOMAIN d \ {k} |-> d[n]]

NoInfo ==
    [login |-> 0, trade_mode |-> "unset", margin_so_mode |-> "unset", margin_mode |-> "unset"]

Result(op, s) ==
    [op |-> op, s |-> s, exc |-> "None", why |-> "", path_exists |-> TRUE,
     binding_ok |-> TRUE, error |-> NoError, raw_none |-> FALSE, raw |-> NoRaw, info |-> NoInfo,
     returned |-> FALSE, repeat |-> FALSE, trace |-> <<>>]

NoArgs == [account_number |-> 0, server |-> ""]

\* A Client object before __init__ runs. attrs is the set of attribute names
\* assigned so far (reading any other one is an AttributeError); args are the
\* arguments of an __init__ call that is under way; scan_saw records how many
\* package directories the isolation directory held when __init__ listed it;
\* disposed tells whether __del__ has run on the object.
NewSession ==
    [status |-> "Unconstructed", attrs |-> {}, install |-> 0,
     args |-> NoArgs,
     account_number |-> 0, server |-> "", timeout |-> 0, portable |-> FALSE,
     module_name |-> <<>>, official |-> 0, scan_saw |-> 0,
     disposed |-> FALSE]

-----------------------------------------------------------------------------
(* Client.last_error *)

last_error(b) == MT5LastError(official_last_error(b))

-----------------------------------------------------------------------------
(* AccountInfo.__init__: attributes are assigned in source order, so a     *)
(* ValueError of a later enum leaves the earlier ones assigned on the      *)
(* object that is then discarded.                                          *)

AccountInfo_init(r) ==
    LET tm == EnumOf(TradeMode, r.obj.trade_mode)
        so == EnumOf(MarginSoMode, r.obj.margin_so_mode)
        mm == EnumOf(MarginMode, r.obj.margin_mode)
    IN  IF r.none
        THEN [exc |-> "AttributeError", info |-> NoInfo]
        ELSE IF tm = "ValueError"
        THEN [exc |-> "ValueError", info |-> [NoInfo EXCEPT !.login = r.obj.login]]
        ELSE IF so = "ValueError"
        THEN [exc |-> "ValueError",
              info |-> [NoInfo EXCEPT !.login = r.obj.login, !.trade_mode = tm]]
        ELSE IF mm = "ValueError"
        THEN [exc |-> "ValueError",
              info |-> [NoInfo EXCEPT !.login = r.obj.login, !.trade_mode = tm,
                                      !.margin_so_mode = so]]
        ELSE [exc |-> "None",
              info |-> [login |-> r.obj.login, trade_mode |-> tm,
                        margin_so_mode |-> so, margin_mode |-> mm]]

-----------------------------------------------------------------------------
(* Client.__copy_and_import_official_module__ and its helper *)

existing_modules_none(dir) == {}

\* d.is_dir() and d.name.startswith("MetaTrader5_"), over the directory's entries
existing_modules(dir) == { d \in dir : d.name[1] = OFFICIAL_MODULE_NAME }

\* existing_modules[0] in iterdir() order, which is arbitrary; <<>> when empty
ScanChoices(dir) ==
    IF existing_modules(dir) = {} THEN { <<>> }
    ELSE { d.name : d \in existing_modules(dir) }

\* str(uuid.uuid4()): a value no earlier call has returned
NewModuleId == Cardinality(UNION { copies[t] : t \in Installs }) + 1

NewModuleName_fixed == <<OFFICIAL_MODULE_NAME, 1>>

NewModuleName == <<OFFICIAL_MODULE_NAME, NewModuleId>>

\* "\n".join(ignore_comments) + "\n\n" + "".join(lines)
add_ignore_comments(lines) ==
    <<"# type: ignore", "# pyright: ignore", "# ruff: noqa", "">> \o lines

\* a module object that no earlier import has produced
NewModuleObject == Cardinality(DOMAIN binding) + 1

terminal_path_exists_unchecked(on_disk) == TRUE

\* self.terminal_path.exists()
terminal_path_exists(on_disk) == on_disk


initialize_raises_never(ok) == FALSE

\* "if not self.official.initialize(...)": the constructor raises
initialize_raises(ok) == ~ ok

login_raises_never(ok) == FALSE

\* "if not self.official.login(...)": login raises
login_raises(ok) == ~ ok

AttrsAfterScan(reuse) ==
    {"terminal_path", "base_module_dir"}
        \cup (IF reuse THEN {"module_dir", "module_name"} ELSE {})

AttrsAfterNaming(reuse) ==
    {"terminal_path", "base_module_dir", "module_dir", "module_name"}
        \cup (IF reuse THEN {} ELSE {"module_id"})

AttrsAfterImport(reuse) ==
    AttrsAfterNaming(reuse)
        \cup {"official", "timeout", "portable", "account_number", "server"}

-----------------------------------------------------------------------------
(* Client.__init__ *)

\* Lines 146-148 and 184-193: the path check and the write probe raise
\* before anything is left behind but self.terminal_path (t: the install it
\* points into, 0 for a path that is not on disk).
InitRaisesEarly(s, t, on_disk, why) ==
    /\ sess' = [sess EXCEPT ![s] =
                   [@ EXCEPT !.status = "Failed", !.attrs = {"terminal_path"},
                             !.install = t, !.args = NoArgs]]
    /\ lastResult' = [Result("construct", s) EXCEPT
                         !.exc = "InitializeError", !.why = why,
                         !.path_exists = on_disk]
    /\ UNCHANGED <<baseDirs, copies, sysPath, sysModules, binding>>

\* Lines 204-227 and 150-172, for a scan that returned m (<<>>: nothing
\* found) with saw entries in the directory, base2 the isolation directories
\* after the mkdir, pre the side effects already made and on_disk what the
\* path check was told.
InitFromScan(s, t, cred, m, saw, base2, pre, on_disk) ==
    \E found \in BOOLEAN, ok \in BOOLEAN, err \in FailTuples :
        LET reuse == m # <<>>
            name == IF reuse THEN m ELSE NewModuleName
        IN  IF ~ reuse /\ ~ found
            THEN /\ baseDirs' = base2
                 /\ sess' = [sess EXCEPT ![s] =
                                [@ EXCEPT !.status = "Failed",
                                          !.attrs = AttrsAfterNaming(reuse),
                                          !.install = t, !.args = NoArgs,
                                          !.scan_saw = saw,
                                          !.module_name = name]]
                 /\ lastResult' = [Result("construct", s) EXCEPT
                                      !.exc = "InitializeError",
                                      !.why = "module not found",
                                      !.path_exists = on_disk, !.trace = pre]
                 /\ UNCHANGED <<copies, sysPath, sysModules, binding>>
            ELSE LET copied == [name |-> name,
                                init_py |-> add_ignore_comments(OfficialInitPy)]
                     cached == name \in DOMAIN sysModules
                     o == IF cached THEN sysModules[name] ELSE NewModuleObject
                     b1 == IF cached THEN binding[o] ELSE FreshBinding
                     b2 == official_initialize(b1, cred, ok, err)
                     raises == initialize_raises(ok)
                 IN  /\ baseDirs' = base2
                     /\ copies' = IF reuse THEN copies
                                  ELSE [copies EXCEPT ![t] = @ \cup {copied}]
                     /\ sysPath' = Append(sysPath, t)
                     /\ sysModules' = IF cached THEN sysModules
                                      ELSE sysModules @@ (name :> o)
                     /\ binding' = IF cached THEN [binding EXCEPT ![o] = b2]
                                   ELSE binding @@ (o :> b2)
                     /\ sess' = [sess EXCEPT ![s] =
                                    [@ EXCEPT
                                       !.status = IF raises THEN "Failed"
                                                  ELSE "Initialized",
                                       !.attrs = AttrsAfterImport(reuse),
                                       !.install = t, !.args = NoArgs,
                                       !.scan_saw = saw,
                                       !.module_name = name, !.official = o,
                                       !.timeout = TIMEOUT_DEFAULT,
                                       !.portable = TRUE,
                                       !.account_number = cred.account_number,
                                       !.server = cred.server]]
                     /\ lastResult' = [Result("construct", s) EXCEPT
                           !.exc = IF raises THEN "InitializeError" ELSE "None",
                           !.why = IF raises THEN "initialize failed" ELSE "",
                           !.path_exists = on_disk,
                           !.binding_ok = ok,
                           !.error = IF raises THEN last_error(b2) ELSE NoError,
                           !.returned = ~ raises,
                           !.trace = pre
                               \o (IF reuse THEN <<>>
                                   ELSE <<"copytree", "add_ignore_comments">>)
                               \o <<"sys.path.append", "import", "initialize">>
                               \o (IF raises THEN <<"last_error">> ELSE <<>>)]

\* Client objects are numbered in the order they are created, and terminal
\* installs in the order a constructor is first pointed at them.
NextObject(s) == \A s2 \in 1 .. s - 1 : sess[s2].status # "Unconstructed"

KnownInstalls == { sess[s].install : s \in Sessions } \ {0}

InstallChoices == { t \in Installs : t <= Cardinality(KnownInstalls) + 1 }

\* The whole constructor, run without interruption.
Client_init(s) ==
    /\ sess[s].status = "Unconstructed"
    /\ NextObject(s)
    /\ \E t \in InstallChoices, on_disk \in BOOLEAN, writable \in BOOLEAN,
          cred \in Credentials :
          IF ~ terminal_path_exists(on_disk)
          THEN InitRaisesEarly(s, 0, on_disk, "terminal path does not exist")
          ELSE IF ~ writable
          THEN InitRaisesEarly(s, t, on_disk, "no write permission")
          ELSE \E m \in ScanChoices(copies[t]) :
                  InitFromScan(s, t, cred, m, Cardinality(copies[t]),
                               baseDirs \cup {t}, <<"touch", "unlink", "mkdir">>,
                               on_disk)

\* The constructor up to and including the directory scan (lines 146-206).
Client_init_scan(s) ==
    /\ sess[s].status = "Unconstructed"
    /\ NextObject(s)
    /\ \E t \in InstallChoices, on_disk \in BOOLEAN, writable \in BOOLEAN,
          cred \in Credentials :
          IF ~ terminal_path_exists(on_disk)
          THEN InitRaisesEarly(s, 0, on_disk, "terminal path does not exist")
          ELSE IF ~ writable
          THEN InitRaisesEarly(s, t, on_disk, "no write permission")
          ELSE \E m \in ScanChoices(copies[t]) :
                  /\ baseDirs' = baseDirs \cup {t}
                  /\ sess' = [sess EXCEPT ![s] =
                                 [@ EXCEPT !.status = "Scanned",
                                           !.attrs = AttrsAfterScan(m # <<>>),
                                           !.install = t, !.args = cred,
                                           !.scan_saw = Cardinality(copies[t]),
                                           !.module_name = m]]
                  /\ lastResult' = [Result("scan", s) EXCEPT
                                       !.trace = <<"touch", "unlink", "mkdir">>]
                  /\ UNCHANGED <<copies, sysPath, sysModules, binding>>

\* The rest of the constructor (lines 207-227 and 150-172).
Client_init_finish(s) ==
    /\ sess[s].status = "Scanned"
    /\ InitFromScan(s, sess[s].install, sess[s].args, sess[s].module_name,
                    sess[s].scan_saw, baseDirs, <<>>, TRUE)

-----------------------------------------------------------------------------
(* Client.__del__ *)

Client_del(s) ==
    /\ sess[s].status \in {"Initialized", "Failed", "Disposed"}
    /\ \E raises \in BOOLEAN :
          LET a == sess[s].attrs
              has == "official" \in a
              o == sess[s].official
              t == sess[s].install
              tryFails == ~ has \/ raises
              handlerFails == tryFails /\ ~ ({"module_name", "module_dir"} \subseteq a)
              noBase == "base_module_dir" \notin a
              exc == IF handlerFails \/ noBase THEN "AttributeError"
                     ELSE IF t \notin Range(sysPath) THEN "ValueError"
                     ELSE "None"
          IN  /\ binding' = IF has
                            THEN [binding EXCEPT ![o] = official_shutdown(@, raises)]
                            ELSE binding
              /\ sysPath' = IF exc = "None" THEN ListRemove(sysPath, t) ELSE sysPath
              /\ sysModules' = IF exc = "None"
                               THEN DictPop(sysModules, sess[s].module_name)
                               ELSE sysModules
              /\ sess' = [sess EXCEPT
                             ![s].disposed = TRUE,
                             ![s].status = IF @ = "Failed" THEN "Failed" ELSE "Disposed"]
              /\ lastResult' = [Result("dispose", s) EXCEPT
                    !.exc = exc,
                    !.repeat = sess[s].disposed,
                    !.binding_ok = ~ raises,
                    !.trace = (IF has THEN <<"shutdown">> ELSE <<>>)
                        \o (IF exc = "None"
                            THEN <<"sys.path.remove", "sys.modules.pop">>
                            ELSE <<>>)]
              /\ UNCHANGED <<baseDirs, copies>>

-----------------------------------------------------------------------------
(* Client.login, Client.account_info *)

Client_login(s) ==
    /\ sess[s].status = "Initialized"
    /\ \E cred \in Credentials, ok \in BOOLEAN, err \in FailTuples :
          LET o == sess[s].official
              b2 == official_login(binding[o], cred, ok, err)
              raises == login_raises(ok)
          IN  /\ binding' = [binding EXCEPT ![o] = b2]
              /\ lastResult' = [Result("login", s) EXCEPT
                    !.exc = IF raises THEN "LoginError" ELSE "None",
                    !.binding_ok = ok,
                    !.error = IF raises THEN last_error(b2) ELSE NoError,
                    !.returned = ~ raises,
                    !.trace = <<"login">>
                        \o (IF raises THEN <<"last_error">> ELSE <<>>)]
              /\ UNCHANGED <<baseDirs, copies, sysPath, sysModules, sess>>

Client_account_info(s) ==
    /\ sess[s].status = "Initialized"
    /\ \E r \in OfficialAccountInfos(binding[sess[s].official]) :
          LET res == AccountInfo_init(r)
          IN  /\ lastResult' = [Result("account_info", s) EXCEPT
                    !.exc = res.exc, !.raw_none = r.none, !.raw = r.obj,
                    !.info = res.info, !.returned = (res.exc = "None"),
                    !.trace = <<"account_info">>]
              /\ UNCHANGED <<baseDirs, copies, sysPath, sysModules, binding, sess>>

-----------------------------------------------------------------------------
(* Specifications *)

Init ==
    /\ baseDirs = {}
    /\ copies = [t \in Installs |-> {}]
    /\ sysPath = <<>>
    /\ sysModules = <<>>
    /\ binding = <<>>
    /\ sess = [s \in Sessions |-> NewSession]
    /\ lastResult = Result("none", 0)

Next ==
    \E s \in Sessions :
        \/ Client_init(s)
        \/ Client_del(s)
        \/ Client_login(s)

Spec == Init /\ [][Next]_vars

NextConc ==
    \E s \in Sessions :
        \/ Client_init_scan(s)
        \/ Client_init_finish(s)
        \/ Client_del(s)

SpecConc == Init /\ [][NextConc]_vars

\* One Client and the calls on it, for what account_info returns.
NextAccountInfo ==
    \/ Client_init(1)
    \/ Client_login(1)
    \/ Client_account_info(1)

SpecAccountInfo == Init /\ [][NextAccountInfo]_vars

-----------------------------------------------------------------------------
(* Properties *)

Actor == lastResult.s

\* What a holder of a binding handle can see of its connection.
ConnState(b) == <<b.connected, b.account>>

\* An object whose constructor appended to sys.path and on which __del__
\* has not run.
Holding(s) == "official" \in sess[s].attrs /\ ~ sess[s].disposed

\* C1: __del__ never raises and always performs both cleanup steps (the
\* sys.path entry removed, the module dropped from sys.modules), whatever
\* object it first runs on: one whose shutdown raises, or one whose
\* constructor raised at any step.
C1_DisposeNeverRaises ==
    (lastResult.op = "dispose" /\ ~ lastResult.repeat) =>
        /\ lastResult.exc = "None"
        /\ "sys.path.remove" \in Range(lastResult.trace)
        /\ "sys.modules.pop" \in Range(lastResult.trace)

\* C2: after a session is disposed its isolation directory is not in sys.path
\* any more, whatever other sessions were constructed before, and disposing
\* it a second time does not raise.
C2_DisposalIdempotent ==
    (lastResult.op = "dispose" /\ sess[Actor].status = "Disposed") =>
        /\ sess[Actor].install \notin Range(sysPath)
        /\ lastResult.repeat => lastResult.exc = "None"

\* C3 (as claimed): a binding call made through one Client (initialize in its
\* constructor, login, shutdown in __del__) never changes the connection state
\* of the handle held by another initialized Client, also when both point at
\* the same terminal install.
C3_NoSharedBindingState ==
    [][\A s \in Sessions :
          (sess[s].status = "Initialized" /\ lastResult'.s # s) =>
              ConnState(binding'[sess[s].official])
                  = ConnState(binding[sess[s].official])]_vars

\* C3 (amended): the same, for two Clients that point at different terminal
\* installs.
C3_IsolatedAcrossInstalls ==
    [][\A s \in Sessions :
          (/\ sess[s].status = "Initialized"
           /\ lastResult'.s # s
           /\ sess'[lastResult'.s].install # sess[s].install) =>
              ConnState(binding'[sess[s].official])
                  = ConnState(binding[sess[s].official])]_vars

\* Two Clients on different installs, the second just disposed and its handle
\* disconnected, the first still connected.
C3_Witness ==
    \E s1, s2 \in Sessions :
        /\ sess[s1].status = "Initialized"
        /\ binding[sess[s1].official].connected
        /\ lastResult.op = "dispose" /\ Actor = s2 /\ lastResult.binding_ok
        /\ sess[s2].status = "Disposed"
        /\ sess[s2].install # sess[s1].install
        /\ ~ binding[sess[s2].official].connected

\* C4: when constructions and disposals against one terminal install follow
\* one another, its isolation directory never holds more than one copy of the
\* binding, and every Client that imported a copy uses that one.
C4_OneCopyReused ==
    /\ \A t \in Installs : Cardinality(existing_modules(copies[t])) <= 1
    /\ \A s \in Sessions :
          "official" \in sess[s].attrs =>
              \E d \in copies[sess[s].install] : d.name = sess[s].module_name
    /\ \A s1, s2 \in Sessions :
          (/\ "official" \in sess[s1].attrs
           /\ "official" \in sess[s2].attrs
           /\ sess[s1].install = sess[s2].install) =>
              sess[s1].module_name = sess[s2].module_name

\* A Client constructed on an install after an earlier one there was disposed,
\* using the copy the earlier one made.
C4_Witness ==
    \E s1, s2 \in Sessions :
        /\ s1 < s2
        /\ sess[s1].status = "Disposed"
        /\ "module_id" \in sess[s1].attrs
        /\ sess[s2].status = "Initialized"
        /\ "module_id" \notin sess[s2].attrs
        /\ sess[s2].install = sess[s1].install
        /\ sess[s2].module_name = sess[s1].module_name
        /\ Cardinality(copies[sess[s1].install]) = 1

\* C5 (as claimed): at most one copy per terminal install in every reachable
\* state, also when two constructors interleave their scan and their copy.
C5_AtMostOneCopy ==
    \A t \in Installs : Cardinality(copies[t]) <= 1

\* C5 (amended): a constructor creates a copy only if the isolation directory
\* held none when it scanned it, so a directory holds at most as many copies
\* as constructors scanned it empty (one, unless constructors overlap).
C5_CopyOnlyAfterEmptyScan ==
    /\ \A s \in Sessions : "module_id" \in sess[s].attrs => sess[s].scan_saw = 0
    /\ \A t \in Installs :
          Cardinality(copies[t]) <=
              Cardinality({ s \in Sessions : /\ sess[s].install = t
                                            /\ "module_id" \in sess[s].attrs })

\* Two constructors raced on a fresh install and each left a copy.
C5_Witness ==
    \E t \in Installs : Cardinality(copies[t]) = 2

\* C6: a constructor given a path that is not on disk raises InitializeError
\* whatever the other arguments and the state, before any side effect: no
\* file or directory is made, sys.path and sys.modules are untouched and no
\* binding operation is called.
C6_MissingPathFailsFirst ==
    [][(lastResult'.op = "construct" /\ ~ lastResult'.path_exists) =>
          /\ lastResult'.exc = "InitializeError"
          /\ lastResult'.trace = <<>>
          /\ sess'[lastResult'.s].status = "Failed"
          /\ UNCHANGED <<baseDirs, copies, sysPath, sysModules, binding>>]_vars

\* A constructor that failed on a missing path while another Client was live.
C6_Witness ==
    /\ lastResult.op = "construct" /\ ~ lastResult.path_exists
    /\ lastResult.exc = "InitializeError"
    /\ \E s \in Sessions : sess[s].status = "Initialized"
    /\ sysPath # <<>>

\* C7: when the binding's initialize returns false the constructor raises
\* InitializeError carrying the last error read from the binding after that
\* call, the object is not Initialized, and neither login nor account_info is
\* or can be forwarded for it.
C7_FailedInitialize ==
    (lastResult.op = "construct" /\ ~ lastResult.binding_ok) =>
        /\ lastResult.exc = "InitializeError"
        /\ lastResult.error = MT5LastError(binding[sess[Actor].official].last_error)
        /\ Len(lastResult.trace) >= 2
        /\ SubSeq(lastResult.trace, Len(lastResult.trace) - 1, Len(lastResult.trace))
               = <<"initialize", "last_error">>
        /\ "login" \notin Range(lastResult.trace)
        /\ "account_info" \notin Range(lastResult.trace)
        /\ sess[Actor].status = "Failed"
        /\ ~ ENABLED Client_login(Actor)
        /\ ~ ENABLED Client_account_info(Actor)

\* A constructor whose initialize failed on a copy it reused.
C7_Witness ==
    /\ lastResult.op = "construct" /\ ~ lastResult.binding_ok
    /\ lastResult.error \in { MT5LastError(e) : e \in FailTuples }
    /\ "module_id" \notin sess[Actor].attrs

\* C8: login on an Initialized Client calls the binding's login once, raises
\* LoginError with the last error exactly when the binding reports failure,
\* and leaves the Client Initialized with its attributes as they were, so
\* that a later login is forwarded again.
C8_LoginForwardsOnce ==
    [][lastResult'.op = "login" =>
          /\ sess[lastResult'.s].status = "Initialized"
          /\ Count(lastResult'.trace, "login") = 1
          /\ lastResult'.exc = (IF lastResult'.binding_ok THEN "None" ELSE "LoginError")
          /\ ~ lastResult'.binding_ok =>
                lastResult'.error
                    = MT5LastError(binding'[sess[lastResult'.s].official].last_error)
          /\ sess' = sess]_vars

\* A login that failed on a Client which an earlier login had already moved
\* to another account than the one it was constructed with.
C8_Witness ==
    /\ lastResult.op = "login" /\ lastResult.exc = "LoginError"
    /\ sess[Actor].status = "Initialized"
    /\ binding[sess[Actor].official].connected
    /\ binding[sess[Actor].official].account # sess[Actor].account_number

\* C9: account_info maps trade_mode 0, 1, 2 to DEMO, CONTEST, REAL and fails
\* the enumeration's construction, returning nothing, for any other value; it
\* returns the AccountInfo when the other two coded fields are members too.
C9_TradeModeMapping ==
    (lastResult.op = "account_info" /\ ~ lastResult.raw_none) =>
        /\ lastResult.raw.trade_mode = 0 => lastResult.info.trade_mode = "DEMO"
        /\ lastResult.raw.trade_mode = 1 => lastResult.info.trade_mode = "CONTEST"
        /\ lastResult.raw.trade_mode = 2 => lastResult.info.trade_mode = "REAL"
        /\ lastResult.raw.trade_mode \notin {0, 1, 2} =>
              /\ lastResult.exc = "ValueError"
              /\ ~ lastResult.returned
              /\ lastResult.info.trade_mode = "unset"
        /\ (/\ lastResult.raw.trade_mode \in {0, 1, 2}
            /\ lastResult.raw.margin_so_mode \in {0, 1}
            /\ lastResult.raw.margin_mode \in {0, 1, 2}) =>
              /\ lastResult.exc = "None"
              /\ lastResult.returned
              /\ lastResult.info.login = lastResult.raw.login

\* account_info returned a REAL account.
C9_Witness ==
    /\ lastResult.op = "account_info"
    /\ lastResult.raw.trade_mode = 2
    /\ lastResult.returned
    /\ lastResult.info.trade_mode = "REAL"

\* C10: for every isolation directory, the number of its entries in sys.path
\* equals the number of Clients on it whose constructor appended one and on
\* which __del__ has not run, after any constructions (failed ones too) and
\* disposals.
C10_LookupPathBalanced ==
    \A t \in Installs :
        Count(sysPath, t)
            = Cardinality({ s \in Sessions : sess[s].install = t /\ Holding(s) })

====
